---- MODULE Spec2Model ----
(***************************************************************************)
(* Model of the Toronto Bike Share dashboard (app.py).                     *)
(*                                                                         *)
(* Two specifications share the snapshot cache of get_data:                *)
(*   CacheSpec  several sessions call get_data concurrently; the steps of  *)
(*              one call (lookup, compute lock, the two feed fetches, the  *)
(*              write) interleave with the other sessions and the clock.   *)
(*   Spec       one user session; every action is one script run of app.py *)
(*              (top to bottom) triggered by one user interaction.         *)
(***************************************************************************)
EXTENDS Integers, Sequences, FiniteSets, TLC

----------------------------------------------------------------------------
(* Bounds *)
MaxTime == 90           \* the clock stops here
TickStep == 30          \* seconds the clock advances in one Tick
MaxFetches == 2         \* feed refreshes started in one behaviour
NSessions == 2          \* concurrent sessions of CacheSpec
NLocs == 1              \* resolvable addresses / positions on the line

(* Program constants *)
TTL == 60               \* @st.cache_data(ttl=60)
NoneLoc == 0 - 1        \* geocode(...) returning None
StaleCeiling == 10 * TTL \* hard staleness ceiling of the specification, 10 min

Sessions == 1..NSessions
Locs == 1..NLocs
BikeModes == {"ebike", "mechanical"}

----------------------------------------------------------------------------
(* Values *)
None == [kind |-> "none"]
DataFrame(id, rows) == [kind |-> "df", id |-> id, rows |-> rows]
NoEntry == [present |-> FALSE]
Entry(v, t, m) == [present |-> TRUE, value |-> v, written |-> t, msgs |-> m]

MsgFetch == "Error fetching data"
MsgUnexpected == "An unexpected error occurred"
MsgUnable == "Unable to fetch bike share data"
MsgNoLocation == "Please input your location."
MsgInvalid == "Invalid address. Please check your input."
MsgNoBikes == "No available bikes found at nearby stations."
MsgNoDocks == "No available docks found at nearby stations."
MsgErrBike == "Error finding a bike"
MsgErrDock == "Error finding a dock"

(* The two feeds.  Station 1 sits at position 1, station 2 at position    *)
(* NLocs; a status row carries the three counts.                           *)
StatusRow(id, m, e, d) == [station_id |-> id, mechanical |-> m, ebike |-> e, docks |-> d]
StatusFeeds ==
    { {},
      {StatusRow(1, 0, 0, 0), StatusRow(2, 0, 0, 0)},
      {StatusRow(1, 1, 0, 0), StatusRow(2, 0, 1, 1)} }
LatlonRow(id, p) == [station_id |-> id, pos |-> p]
LatlonFeeds ==
    { {LatlonRow(1, 1), LatlonRow(2, NLocs)},
      {LatlonRow(2, NLocs)} }

(* Outcome of one feed request: a frame, None, or an exception type.       *)
FetchFailures == {"URLError", "RequestException", "ValueError"}
FetchOutcomes == {"ok", "none"} \cup FetchFailures

(* join_latlon: inner join of the status rows and the metadata rows on     *)
(* station_id.                                                             *)
join_latlon(data_df, latlon_df) ==
    { [station_id |-> r.station_id, pos |-> l.pos, mechanical |-> r.mechanical,
       ebike |-> r.ebike, docks |-> r.docks,
       num_bikes_available |-> r.mechanical + r.ebike] :
        <<r, l>> \in { p \in data_df \X latlon_df : p[1].station_id = p[2].station_id } }

----------------------------------------------------------------------------
(* handle_api_error: the wrapper turns every exception of the wrapped      *)
(* function into an st.error message and the return value None.            *)
(* r is the outcome of the wrapped call: [raised, value].                  *)
handle_api_error(r) ==
    IF r.raised \in {"URLError", "RequestException"}
    THEN [value |-> None, msgs |-> {MsgFetch}]
    ELSE IF r.raised # "no"
    THEN [value |-> None, msgs |-> {MsgUnexpected}]
    ELSE [value |-> r.value, msgs |-> {}]

(* Body of get_data, given the outcomes o1, o2 of query_station_status and *)
(* get_station_latlon, the two payloads and the identity of the frame.     *)
get_data_body(o1, o2, sf, lf, id) ==
    IF o1 \in FetchFailures THEN [raised |-> o1, value |-> None]
    ELSE IF o1 = "none" THEN [raised |-> "no", value |-> None]
    ELSE IF o2 \in FetchFailures THEN [raised |-> o2, value |-> None]
    ELSE IF o2 = "none" THEN [raised |-> "no", value |-> None]
    ELSE [raised |-> "no", value |-> DataFrame(id, join_latlon(sf, lf))]

(* The failure a refresh ended with ("no" when it produced a frame).       *)
FetchFailure(o1, o2) ==
    IF o1 # "ok" THEN o1 ELSE IF o2 # "ok" THEN o2 ELSE "no"

(* Mutant: the entry is dropped one clock step too early.                  *)
CacheFresh_short(c, t) == c.present /\ t - c.written < TTL - TickStep

(* st.cache_data(ttl=60): an entry is served while it is younger than ttl. *)
CacheFresh(c, t) == c.present /\ t - c.written < TTL

----------------------------------------------------------------------------
VARIABLES
    now,                \* wall clock, seconds
    cache,              \* the st.cache_data entry of get_data()
    fetches,            \* feed refreshes started so far
    lastGood,           \* CacheSpec: the last frame a refresh produced, and when
    lock,               \* holder of the cache's compute lock, 0 when free
    tpc,                \* CacheSpec: where each session is inside get_data()
    tfetch,             \* CacheSpec: the refresh a session is running
    lastCall,           \* CacheSpec: the most recent completed get_data() call
    prevCall,           \* CacheSpec: the completed call before lastCall
    bike_method,        \* st.session_state.bike_method
    input_bike_modes,   \* st.session_state.input_bike_modes
    findmeabike,        \* st.session_state.findmeabike
    findmeadock,        \* st.session_state.findmeadock
    iamhere,            \* st.session_state.iamhere
    iamhere_return,     \* st.session_state.iamhere_return
    widgets,            \* widgets the last script run rendered
    out                 \* what the last script run did and showed

cacheVars == <<now, cache, fetches, lastGood>>
threadVars == <<lock, tpc, tfetch, lastCall, prevCall>>
sessionVars == <<bike_method, input_bike_modes, findmeabike, findmeadock,
                 iamhere, iamhere_return, widgets, out>>
vars == <<cacheVars, threadVars, sessionVars>>

NoCall == [valid |-> FALSE, value |-> None, at |-> 0, fetched |-> FALSE,
           written |-> 0, failure |-> "no"]
CallRec(v, t, f, w, e) == [valid |-> TRUE, value |-> v, at |-> t, fetched |-> f,
                           written |-> w, failure |-> e]
NoGood == [valid |-> FALSE, value |-> None, written |-> 0]
NoFetch == [id |-> 0, status |-> {}]

(* A refresh that produced a frame becomes the last good snapshot.         *)
NextGood(g, v, t) ==
    IF v.kind = "df" THEN [valid |-> TRUE, value |-> v, written |-> t] ELSE g

----------------------------------------------------------------------------
(* CacheSpec: get_data() called from several sessions.                     *)

(* A session calls get_data(): a fresh entry is returned at once,          *)
(* otherwise the session goes for the compute lock of the entry.           *)
GetDataCall(t) ==
    /\ tpc[t] = "idle"
    /\ IF CacheFresh(cache, now)
       THEN /\ lastCall' = CallRec(cache.value, now, FALSE, cache.written, "no")
            /\ prevCall' = lastCall
            /\ UNCHANGED tpc
       ELSE /\ tpc' = [tpc EXCEPT ![t] = "waiting"]
            /\ UNCHANGED <<lastCall, prevCall>>
    /\ UNCHANGED <<cacheVars, lock, tfetch, sessionVars>>

(* Mutant: the cache miss path starts the refresh without the lock.        *)
AcquireComputeLock_nolock(t) ==
    /\ tpc[t] = "waiting"
    /\ fetches < MaxFetches
    /\ fetches' = fetches + 1
    /\ tpc' = [tpc EXCEPT ![t] = "status"]
    /\ tfetch' = [tfetch EXCEPT ![t] = [id |-> fetches + 1, status |-> {}]]
    /\ UNCHANGED <<now, cache, lastGood, lock, lastCall, prevCall, sessionVars>>

(* The cache miss path of st.cache_data: take the compute lock, look the   *)
(* entry up again (another session may have written it), and only then     *)
(* start the wrapped function.                                             *)
AcquireComputeLock(t) ==
    /\ tpc[t] = "waiting"
    /\ lock = 0
    /\ IF CacheFresh(cache, now)
       THEN /\ lastCall' = CallRec(cache.value, now, FALSE, cache.written, "no")
            /\ prevCall' = lastCall
            /\ tpc' = [tpc EXCEPT ![t] = "idle"]
            /\ UNCHANGED <<fetches, lock, tfetch>>
       ELSE /\ fetches < MaxFetches
            /\ fetches' = fetches + 1
            /\ lock' = t
            /\ tpc' = [tpc EXCEPT ![t] = "status"]
            /\ tfetch' = [tfetch EXCEPT ![t] = [id |-> fetches + 1, status |-> {}]]
            /\ UNCHANGED <<lastCall, prevCall>>
    /\ UNCHANGED <<now, cache, lastGood, sessionVars>>

(* The wrapped call returns: its value (None after a failure) is written   *)
(* to the cache with the messages it showed, the lock is released and the  *)
(* value is returned to the caller.                                        *)
FinishRefresh(t, o1, o2, lf) ==
    LET r == handle_api_error(get_data_body(o1, o2, tfetch[t].status, lf, tfetch[t].id))
    IN  /\ cache' = Entry(r.value, now, r.msgs)
        /\ lastGood' = NextGood(lastGood, r.value, now)
        /\ lock' = IF lock = t THEN 0 ELSE lock
        /\ tpc' = [tpc EXCEPT ![t] = "idle"]
        /\ tfetch' = [tfetch EXCEPT ![t] = NoFetch]
        /\ lastCall' = CallRec(r.value, now, TRUE, now, FetchFailure(o1, o2))
        /\ prevCall' = lastCall
        /\ UNCHANGED <<now, fetches, sessionVars>>

(* data_df = query_station_status(station_url)                             *)
QueryStationStatus(t) ==
    /\ tpc[t] = "status"
    /\ \E o1 \in FetchOutcomes, sf \in StatusFeeds :
          IF o1 = "ok"
          THEN /\ tpc' = [tpc EXCEPT ![t] = "latlon"]
               /\ tfetch' = [tfetch EXCEPT ![t].status = sf]
               /\ UNCHANGED <<cacheVars, lock, lastCall, prevCall, sessionVars>>
          ELSE FinishRefresh(t, o1, "ok", {})

(* latlon_df = get_station_latlon(latlon_url); return join_latlon(...)     *)
GetStationLatlon(t) ==
    /\ tpc[t] = "latlon"
    /\ \E o2 \in FetchOutcomes, lf \in LatlonFeeds : FinishRefresh(t, "ok", o2, lf)

Tick ==
    /\ now + TickStep <= MaxTime
    /\ now' = now + TickStep
    /\ UNCHANGED <<cache, fetches, lastGood, threadVars, sessionVars>>

----------------------------------------------------------------------------
(* Spec: one user session.                                                 *)

(* Python truth value of a stored location: 0 and None are falsy.          *)
Falsy(loc) == loc = 0 \/ loc = NoneLoc

Dist(loc, row) == IF loc >= row.pos THEN loc - row.pos ELSE row.pos - loc

Station(row) == [kind |-> "station", station_id |-> row.station_id, pos |-> row.pos]

(* The candidate of a set of viable stations: the nearest one, the lowest  *)
(* station_id among equally near ones, None when there is none.            *)
Nearest(loc, cands) ==
    IF cands = {} THEN None
    ELSE Station(CHOOSE r \in cands : \A q \in cands :
                    \/ Dist(loc, r) < Dist(loc, q)
                    \/ Dist(loc, r) = Dist(loc, q) /\ r.station_id <= q.station_id)

(* Rent filter: a bike is available, and one of the requested kinds when   *)
(* kinds were requested.                                                   *)
RentFilter(rows, modes) ==
    { r \in rows : /\ r.num_bikes_available > 0
                   /\ \/ modes = {}
                      \/ "ebike" \in modes /\ r.ebike > 0
                      \/ "mechanical" \in modes /\ r.mechanical > 0 }

(* Return filter: a dock is free.                                          *)
DockFilter(rows) == { r \in rows : r.docks > 0 }

get_bike_availability(loc, data, modes) == Nearest(loc, RentFilter(data.rows, modes))

get_dock_availability(loc, data) == Nearest(loc, DockFilter(data.rows))

(* Widgets of the sidebar for a mode.                                      *)
SidebarWidgets(m) ==
    IF m = "Rent" THEN {"bike_method", "input_bike_modes", "find_bike"}
    ELSE {"bike_method", "find_dock"}

NoOut == [ran |-> FALSE, event |-> "none", data |-> None, msgs |-> {}, maps |-> {},
          calls |-> <<>>, failures |-> {}, propagated |-> "no",
          chosen_rent |-> None, chosen_return |-> None, fetched |-> FALSE,
          fetch_failure |-> "no"]

(* The session as a record, so that a script run is a function of it.      *)
Cur == [bike_method |-> bike_method, input_bike_modes |-> input_bike_modes,
        findmeabike |-> findmeabike, findmeadock |-> findmeadock,
        iamhere |-> iamhere, iamhere_return |-> iamhere_return,
        widgets |-> widgets, cache |-> cache, fetches |-> fetches,
        out |-> out, rerun |-> FALSE]

(* Session state initialisation: a key that is missing gets its default.   *)
(* The key of a widget is missing when the previous run did not render     *)
(* the widget.                                                             *)
InitBikeMethod(st) ==
    IF "bike_method" \in st.widgets THEN st.bike_method ELSE "Rent"

InitBikeModes(st) ==
    IF "input_bike_modes" \in st.widgets THEN st.input_bike_modes ELSE {}

(* data = get_data() through st.cache_data at time t: a fresh entry is     *)
(* returned with the messages recorded for it, otherwise the wrapped       *)
(* function runs and its result, None included, is stored.                 *)
get_data(st, t, env) ==
    IF CacheFresh(st.cache, t)
    THEN [value |-> st.cache.value, msgs |-> st.cache.msgs, cache |-> st.cache,
          fetches |-> st.fetches,
          fetched |-> FALSE, failure |-> "no"]
    ELSE LET r == handle_api_error(
                    get_data_body(env.o1, env.o2, env.sf, env.lf, st.fetches + 1))
         IN  [value |-> r.value, msgs |-> r.msgs, cache |-> Entry(r.value, t, r.msgs),
              fetches |-> st.fetches + 1,
              fetched |-> TRUE, failure |-> FetchFailure(env.o1, env.o2)]

(* Mutant: an unresolved address is stored without a message.              *)
FindBikeHandler_no_msg(st, ev, env) ==
    IF ev.kind # "find_bike" \/ ev.street = ""
    THEN [findmeabike |-> st.findmeabike, iamhere |-> st.iamhere,
          msgs |-> {}, calls |-> <<>>, raised |-> "no"]
    ELSE [findmeabike |-> TRUE, iamhere |-> env.geo,
          msgs |-> {}, calls |-> <<"geocode">>, raised |-> "no"]

(* The "Find me a bike!" button of the Rent sidebar.  street is the text   *)
(* of the Street input; env.geo is what geocode returns for the address    *)
(* and env.geo_raised says that geocode raised instead.                    *)
FindBikeHandler(st, ev, env) ==
    IF ev.kind # "find_bike"
    THEN [findmeabike |-> st.findmeabike, iamhere |-> st.iamhere,
          msgs |-> {}, calls |-> <<>>, raised |-> "no"]
    ELSE IF ev.street = ""
    THEN [findmeabike |-> st.findmeabike, iamhere |-> st.iamhere,
          msgs |-> {MsgNoLocation}, calls |-> <<>>, raised |-> "no"]
    ELSE IF env.geo_raised
    THEN [findmeabike |-> TRUE, iamhere |-> st.iamhere,
          msgs |-> {}, calls |-> <<"geocode">>, raised |-> "RequestException"]
    ELSE [findmeabike |-> TRUE, iamhere |-> env.geo,
          msgs |-> IF Falsy(env.geo) THEN {MsgInvalid} ELSE {},
          calls |-> <<"geocode">>, raised |-> "no"]

(* The "Find me a dock!" button of the Return sidebar.                     *)
FindDockHandler(st, ev, env) ==
    IF ev.kind # "find_dock"
    THEN [findmeadock |-> st.findmeadock, iamhere_return |-> st.iamhere_return,
          msgs |-> {}, calls |-> <<>>, raised |-> "no"]
    ELSE IF ev.street = ""
    THEN [findmeadock |-> st.findmeadock, iamhere_return |-> st.iamhere_return,
          msgs |-> {MsgNoLocation}, calls |-> <<>>, raised |-> "no"]
    ELSE IF env.geo_raised
    THEN [findmeadock |-> TRUE, iamhere_return |-> st.iamhere_return,
          msgs |-> {}, calls |-> <<"geocode">>, raised |-> "RequestException"]
    ELSE [findmeadock |-> TRUE, iamhere_return |-> env.geo,
          msgs |-> IF Falsy(env.geo) THEN {MsgInvalid} ELSE {},
          calls |-> <<"geocode">>, raised |-> "no"]

(* The two initial maps.                                                   *)
InitialMaps(m, fab, fad) ==
    (IF m = "Return" /\ ~fad THEN {"initial_return_map"} ELSE {})
    \cup (IF m = "Rent" /\ ~fab THEN {"initial_rent_map"} ELSE {})

NoBlock == [calls |-> <<>>, msgs |-> {}, maps |-> {}, failures |-> {}, chosen |-> None]

(* Mutant: the block runs for any stored location, resolved or not.        *)
FindBikeBlock_no_location_check(fab, here, data, modes, osrm) ==
    IF ~fab THEN NoBlock
    ELSE LET chosen_station == get_bike_availability(here, data, modes)
         IN  IF chosen_station.kind = "none"
             THEN [calls |-> <<"select_rent">>, msgs |-> {MsgNoBikes}, maps |-> {},
                   failures |-> {}, chosen |-> chosen_station]
             ELSE [calls |-> <<"select_rent", "route_rent">>, msgs |-> {},
                   maps |-> {"route_rent_map"}, failures |-> {},
                   chosen |-> chosen_station]

(* Mutant: the route is requested whether or not a station was chosen.     *)
FindBikeBlock_always_route(fab, here, data, modes, osrm) ==
    IF ~(fab /\ ~Falsy(here)) THEN NoBlock
    ELSE LET chosen_station == get_bike_availability(here, data, modes)
         IN  [calls |-> <<"select_rent", "route_rent">>, msgs |-> {},
              maps |-> {"route_rent_map"}, failures |-> {}, chosen |-> chosen_station]

(* Logic for finding a bike.                                               *)
FindBikeBlock(fab, here, data, modes, osrm) ==
    IF ~(fab /\ ~Falsy(here)) THEN NoBlock
    ELSE LET chosen_station == get_bike_availability(here, data, modes)
         IN  IF chosen_station.kind = "none"
             THEN [calls |-> <<"select_rent">>, msgs |-> {MsgNoBikes}, maps |-> {},
                   failures |-> {}, chosen |-> chosen_station]
             ELSE IF osrm # "ok"
             THEN [calls |-> <<"select_rent", "route_rent">>, msgs |-> {MsgErrBike},
                   maps |-> {}, failures |-> {[op |-> "route_rent", type |-> osrm]},
                   chosen |-> chosen_station]
             ELSE [calls |-> <<"select_rent", "route_rent">>, msgs |-> {},
                   maps |-> {"route_rent_map"}, failures |-> {},
                   chosen |-> chosen_station]

(* Mutant: the route is requested whether or not a dock was chosen.        *)
FindDockBlock_always_route(fad, here, data, osrm) ==
    IF ~(fad /\ ~Falsy(here)) THEN NoBlock
    ELSE LET chosen_station == get_dock_availability(here, data)
         IN  [calls |-> <<"select_return", "route_return">>, msgs |-> {},
              maps |-> {"route_return_map"}, failures |-> {}, chosen |-> chosen_station]

(* Logic for finding a dock.                                               *)
FindDockBlock(fad, here, data, osrm) ==
    IF ~(fad /\ ~Falsy(here)) THEN NoBlock
    ELSE LET chosen_station == get_dock_availability(here, data)
         IN  IF chosen_station.kind = "none"
             THEN [calls |-> <<"select_return">>, msgs |-> {MsgNoDocks}, maps |-> {},
                   failures |-> {}, chosen |-> chosen_station]
             ELSE IF osrm # "ok"
             THEN [calls |-> <<"select_return", "route_return">>, msgs |-> {MsgErrDock},
                   maps |-> {}, failures |-> {[op |-> "route_return", type |-> osrm]},
                   chosen |-> chosen_station]
             ELSE [calls |-> <<"select_return", "route_return">>, msgs |-> {},
                   maps |-> {"route_return_map"}, failures |-> {},
                   chosen |-> chosen_station]

(* The Reset button.  m is the mode of the run: in Rent mode the           *)
(* multiselect with key input_bike_modes was instantiated earlier in the   *)
(* run, so assigning to that key raises StreamlitAPIException after the    *)
(* four assignments before it; in Return mode the assignment works and     *)
(* the script is rerun.                                                    *)
ResetHandler(ev, m, fab, fad, here, here_return, modes) ==
    IF ev.kind # "reset"
    THEN [findmeabike |-> fab, findmeadock |-> fad, iamhere |-> here,
          iamhere_return |-> here_return, input_bike_modes |-> modes,
          raised |-> "no", rerun |-> FALSE]
    ELSE IF m = "Rent"
    THEN [findmeabike |-> FALSE, findmeadock |-> FALSE, iamhere |-> 0,
          iamhere_return |-> 0, input_bike_modes |-> modes,
          raised |-> "StreamlitAPIException", rerun |-> FALSE]
    ELSE [findmeabike |-> FALSE, findmeadock |-> FALSE, iamhere |-> 0,
          iamhere_return |-> 0, input_bike_modes |-> {},
          raised |-> "no", rerun |-> TRUE]

FirstRaised(a, b) == IF a # "no" THEN a ELSE b

(* One run of the script, top to bottom, at time t.  ev is the user        *)
(* interaction that triggered it, env the answers of the outside world.    *)
ScriptRun(st, ev, env, t) ==
    LET m     == IF ev.kind = "select_mode" THEN ev.mode ELSE InitBikeMethod(st)
        modes == IF ev.kind = "set_modes" THEN ev.modes ELSE InitBikeModes(st)
        g     == get_data(st, t, env)
        gfail == IF g.failure \in FetchFailures
                 THEN {[op |-> "get_data", type |-> g.failure]} ELSE {}
        base  == [st EXCEPT !.bike_method = m, !.input_bike_modes = modes,
                            !.cache = g.cache, !.fetches = g.fetches,
                            !.rerun = FALSE]
        obase == [NoOut EXCEPT !.ran = TRUE, !.event = ev.kind, !.data = g.value,
                               !.fetched = g.fetched, !.fetch_failure = g.failure]
    IN
    IF g.value.kind = "none"
    THEN [base EXCEPT !.widgets = {},
                      !.out = [obase EXCEPT !.msgs = g.msgs \cup {MsgUnable},
                                            !.calls = <<"get_data">>,
                                            !.failures = gfail]]
    ELSE
    LET fb  == FindBikeHandler(st, ev, env)
        fd  == FindDockHandler(st, ev, env)
        sraised == FirstRaised(fb.raised, fd.raised)
    IN
    IF sraised # "no"
    THEN [base EXCEPT !.findmeabike = fb.findmeabike, !.findmeadock = fd.findmeadock,
                      !.widgets = SidebarWidgets(m),
                      !.out = [obase EXCEPT !.msgs = g.msgs,
                                   !.calls = <<"get_data">> \o fb.calls \o fd.calls,
                                   !.failures = {[op |-> "geocode", type |-> sraised]},
                                   !.propagated = sraised]]
    ELSE
    LET bb  == FindBikeBlock(fb.findmeabike, fb.iamhere, g.value, modes, env.osrm_rent)
        db  == FindDockBlock(fd.findmeadock, fd.iamhere_return, g.value, env.osrm_return)
        rs  == ResetHandler(ev, m, fb.findmeabike, fd.findmeadock, fb.iamhere,
                            fd.iamhere_return, modes)
    IN  [base EXCEPT !.findmeabike = rs.findmeabike, !.findmeadock = rs.findmeadock,
                     !.iamhere = rs.iamhere, !.iamhere_return = rs.iamhere_return,
                     !.input_bike_modes = rs.input_bike_modes,
                     !.widgets = SidebarWidgets(m) \cup {"reset"},
                     !.rerun = rs.rerun,
                     !.out = [obase EXCEPT
                         !.msgs = g.msgs \cup fb.msgs \cup fd.msgs \cup bb.msgs \cup db.msgs,
                         !.maps = InitialMaps(m, fb.findmeabike, fd.findmeadock)
                                  \cup bb.maps \cup db.maps,
                         !.calls = <<"get_data">> \o fb.calls \o fd.calls
                                   \o bb.calls \o db.calls,
                         !.failures = bb.failures \cup db.failures,
                         !.propagated = rs.raised,
                         !.chosen_rent = bb.chosen,
                         !.chosen_return = db.chosen]]

RerunEvent == [kind |-> "rerun", mode |-> "Rent", modes |-> {}, street |-> ""]

(* A script run and, when it ended in st.experimental_rerun(), the run     *)
(* that follows it at once.                                                *)
ScriptRunAll(st, ev, env, t) ==
    LET r1 == ScriptRun(st, ev, env, t)
    IN  IF r1.rerun
        THEN LET r2 == ScriptRun(r1, RerunEvent, env, t)
             IN  [r2 EXCEPT !.out.event = ev.kind]
        ELSE r1

(* The answers of the outside world a run can meet.  Only the answers the  *)
(* run asks for vary: the feeds when the cache entry is not fresh, the     *)
(* geocoder when an address is submitted, the router of a flow that is on. *)
DefaultFeed == [o1 |-> "ok", o2 |-> "ok", sf |-> {}, lf |-> {}]
FeedAnswers ==
    { [o1 |-> o, o2 |-> "ok", sf |-> {}, lf |-> {}] : o \in FetchOutcomes \ {"ok"} }
    \cup { [o1 |-> "ok", o2 |-> o, sf |-> f, lf |-> {}] :
             o \in FetchOutcomes \ {"ok"}, f \in {{}} }
    \cup { [o1 |-> "ok", o2 |-> "ok", sf |-> f, lf |-> l] :
             f \in StatusFeeds, l \in LatlonFeeds }
GeoAnswers(ev) ==
    IF ev.kind \in {"find_bike", "find_dock"} /\ ev.street # ""
    THEN { [geo |-> x, geo_raised |-> FALSE] : x \in Locs \cup {NoneLoc} }
         \cup { [geo |-> 0, geo_raised |-> TRUE] }
    ELSE { [geo |-> 0, geo_raised |-> FALSE] }
RouteAnswers(on) == IF on THEN {"ok", "RequestException"} ELSE {"ok"}

Envs(ev) ==
    { [o1 |-> f.o1, o2 |-> f.o2, sf |-> f.sf, lf |-> f.lf,
       geo |-> a.geo, geo_raised |-> a.geo_raised,
       osrm_rent |-> r1, osrm_return |-> r2] :
        f \in (IF CacheFresh(cache, now) THEN {DefaultFeed} ELSE FeedAnswers),
        a \in GeoAnswers(ev),
        r1 \in RouteAnswers(findmeabike \/ ev.kind = "find_bike"),
        r2 \in RouteAnswers(findmeadock \/ ev.kind = "find_dock") }

(* The session takes the state a run leaves behind.                        *)
Install(r) ==
    /\ bike_method' = r.bike_method
    /\ input_bike_modes' = r.input_bike_modes
    /\ findmeabike' = r.findmeabike
    /\ findmeadock' = r.findmeadock
    /\ iamhere' = r.iamhere
    /\ iamhere_return' = r.iamhere_return
    /\ widgets' = r.widgets
    /\ out' = r.out
    /\ cache' = r.cache
    /\ fetches' = r.fetches
    /\ UNCHANGED <<now, lastGood, threadVars>>

Interaction(ev) ==
    /\ CacheFresh(cache, now) \/ fetches < MaxFetches
    /\ \E env \in Envs(ev) : Install(ScriptRunAll(Cur, ev, env, now))

(* User interactions; each triggers one script run.                        *)
Rerun ==
    /\ CacheFresh(cache, now) \/ fetches < MaxFetches
    /\ \E env \in Envs(RerunEvent) : Install(ScriptRunAll(Cur, RerunEvent, env, now))

SelectMode ==
    /\ "bike_method" \in widgets
    /\ \E m \in {"Rent", "Return"} :
          /\ m # bike_method
          /\ Interaction([kind |-> "select_mode", mode |-> m, modes |-> {}, street |-> ""])

SelectBikeModes ==
    /\ "input_bike_modes" \in widgets
    /\ \E ms \in SUBSET BikeModes :
          /\ ms # input_bike_modes
          /\ Interaction([kind |-> "set_modes", mode |-> "Rent", modes |-> ms, street |-> ""])

FindMeABike ==
    /\ "find_bike" \in widgets
    /\ \E s \in {"", "addr"} :
          Interaction([kind |-> "find_bike", mode |-> "Rent", modes |-> {}, street |-> s])

FindMeADock ==
    /\ "find_dock" \in widgets
    /\ \E s \in {"", "addr"} :
          Interaction([kind |-> "find_dock", mode |-> "Return", modes |-> {}, street |-> s])

Reset ==
    /\ "reset" \in widgets
    /\ Interaction([kind |-> "reset", mode |-> "Rent", modes |-> {}, street |-> ""])

----------------------------------------------------------------------------
Init ==
    /\ now = 0
    /\ cache = NoEntry
    /\ fetches = 0
    /\ lastGood = NoGood
    /\ lock = 0
    /\ tpc = [t \in Sessions |-> "idle"]
    /\ tfetch = [t \in Sessions |-> NoFetch]
    /\ lastCall = NoCall
    /\ prevCall = NoCall
    /\ bike_method = "Rent"
    /\ input_bike_modes = {}
    /\ findmeabike = FALSE
    /\ findmeadock = FALSE
    /\ iamhere = 0
    /\ iamhere_return = 0
    /\ widgets = {}
    /\ out = NoOut

Next ==
    \/ Tick
    \/ Rerun
    \/ SelectMode
    \/ SelectBikeModes
    \/ FindMeABike
    \/ FindMeADock
    \/ Reset

Spec == Init /\ [][Next]_vars

CacheNext ==
    \/ Tick
    \/ \E t \in Sessions : GetDataCall(t)
    \/ \E t \in Sessions : AcquireComputeLock(t)
    \/ \E t \in Sessions : QueryStationStatus(t)
    \/ \E t \in Sessions : GetStationLatlon(t)

CacheSpec == Init /\ [][CacheNext]_vars

----------------------------------------------------------------------------
(* Properties of the snapshot cache (CacheSpec).                           *)

Fetching == { t \in Sessions : tpc[t] \in {"status", "latlon"} }

C2_FailedRefreshServesLastGood ==
    (/\ lastCall.valid /\ lastCall.fetched /\ lastCall.failure # "no"
     /\ lastGood.valid /\ lastCall.at - lastGood.written <= StaleCeiling)
        => lastCall.value = lastGood.value

----------------------------------------------------------------------------
(* Properties of a user session (Spec).                                    *)

InCalls(o, c) == \E i \in 1..Len(o.calls) : o.calls[i] = c
RentCalls(o) == InCalls(o, "select_rent") \/ InCalls(o, "route_rent")
ReturnCalls(o) == InCalls(o, "select_return") \/ InCalls(o, "route_return")
Failed(o, c) == \E f \in o.failures : f.op = c

(* Where the run described by o left the Rent request, and the Return one. *)
RentState(o, fab, here) ==
    IF "route_rent_map" \in o.maps THEN "DONE"
    ELSE IF Failed(o, "route_rent") THEN "ROUTE_FAILED"
    ELSE IF InCalls(o, "select_rent") /\ o.chosen_rent.kind = "none" THEN "NO_CANDIDATE"
    ELSE IF fab /\ here = NoneLoc THEN "LOCATION_FAILED"
    ELSE "IDLE"

ReturnState(o, fad, here) ==
    IF "route_return_map" \in o.maps THEN "DONE"
    ELSE IF Failed(o, "route_return") THEN "ROUTE_FAILED"
    ELSE IF InCalls(o, "select_return") /\ o.chosen_return.kind = "none" THEN "NO_CANDIDATE"
    ELSE IF fad /\ here = NoneLoc THEN "LOCATION_FAILED"
    ELSE "IDLE"

Terminal == {"LOCATION_FAILED", "NO_CANDIDATE", "ROUTE_FAILED", "DONE"}
NewRequest == {"find_bike", "find_dock", "reset"}

(* C4, as stated: once a request is in a terminal state, a later script    *)
(* run that is neither a Find submission nor a Reset makes no candidate    *)
(* selection and no routing call for it.                                   *)
C4_TerminalNoRetry ==
    [][/\ (RentState(out, findmeabike, iamhere) \in Terminal
           /\ out'.event \notin NewRequest) => ~RentCalls(out')
       /\ (ReturnState(out, findmeadock, iamhere_return) \in Terminal
           /\ out'.event \notin NewRequest) => ~ReturnCalls(out')]_vars

(* C4, amended: only LOCATION_FAILED is terminal.  After it a later run    *)
(* that is neither a Find submission nor a Reset makes no selection and    *)
(* no routing call; after NO_CANDIDATE, ROUTE_FAILED and DONE every such   *)
(* run that has the snapshot selects again for the stored location.        *)
C4_OnlyLocationFailedIsTerminal ==
    [][/\ (RentState(out, findmeabike, iamhere) = "LOCATION_FAILED"
           /\ out'.event \notin NewRequest) => ~RentCalls(out')
       /\ (ReturnState(out, findmeadock, iamhere_return) = "LOCATION_FAILED"
           /\ out'.event \notin NewRequest) => ~ReturnCalls(out')
       /\ (/\ RentState(out, findmeabike, iamhere) \in Terminal \ {"LOCATION_FAILED"}
           /\ findmeabike /\ ~Falsy(iamhere)
           /\ out'.event \notin NewRequest
           /\ out'.data.kind = "df") => InCalls(out', "select_rent")
       /\ (/\ ReturnState(out, findmeadock, iamhere_return) \in Terminal \ {"LOCATION_FAILED"}
           /\ findmeadock /\ ~Falsy(iamhere_return)
           /\ out'.event \notin NewRequest
           /\ out'.data.kind = "df") => InCalls(out', "select_return")]_vars

C4_Witness ==
    /\ out.event = "rerun"
    /\ findmeabike /\ ~Falsy(iamhere)
    /\ RentState(out, findmeabike, iamhere) = "DONE"

Pos(o, c) == CHOOSE i \in 1..Len(o.calls) : o.calls[i] = c

(* C5, as stated: within one run the address is geocoded before the        *)
(* snapshot is obtained, selection follows, routing comes last, and a      *)
(* later step runs only after a usable result of the earlier ones.         *)
C5_GeocodeThenSnapshot ==
    /\ (InCalls(out, "geocode") /\ InCalls(out, "get_data"))
          => Pos(out, "geocode") < Pos(out, "get_data")
    /\ InCalls(out, "route_rent") => out.chosen_rent.kind = "station"
    /\ InCalls(out, "route_return") => out.chosen_return.kind = "station"

(* C5, amended: within one run the snapshot is obtained first, then the    *)
(* address is geocoded, then a station is selected, then the route is      *)
(* requested; geocode runs only with a snapshot, selection only with a     *)
(* snapshot and a resolved location, routing only right after a selection  *)
(* that chose a station.                                                   *)
C5_SnapshotThenGeocode ==
    /\ out.ran => out.calls[1] = "get_data"
    /\ \A i \in 2..Len(out.calls) : out.calls[i] # "get_data"
    /\ InCalls(out, "geocode") => (Pos(out, "geocode") = 2 /\ out.data.kind = "df")
    /\ InCalls(out, "select_rent") =>
          /\ out.data.kind = "df"
          /\ out.event # "reset" => (findmeabike /\ ~Falsy(iamhere))
    /\ InCalls(out, "select_return") =>
          /\ out.data.kind = "df"
          /\ out.event # "reset" => (findmeadock /\ ~Falsy(iamhere_return))
    /\ InCalls(out, "route_rent") =>
          /\ out.chosen_rent.kind = "station"
          /\ InCalls(out, "select_rent")
          /\ Pos(out, "route_rent") = Pos(out, "select_rent") + 1
    /\ InCalls(out, "route_return") =>
          /\ out.chosen_return.kind = "station"
          /\ InCalls(out, "select_return")
          /\ Pos(out, "route_return") = Pos(out, "select_return") + 1

C5_Witness ==
    out.calls = <<"get_data", "geocode", "select_return", "route_return">>

(* C6: a failure of the feed fetch or of the routing call reaches the      *)
(* caller of the script as an error of the failure's type.                 *)
C6_FailuresPropagateTyped ==
    \A f \in out.failures :
        f.op \in {"get_data", "route_rent", "route_return"} => out.propagated = f.type

(* C7: when no station passes the filter of a flow, selection yields None, *)
(* the run shows the flow's "no available" message and not the fetch       *)
(* failure message, and requests no route for the flow; a run without a    *)
(* snapshot shows the fetch failure message and neither "no available"     *)
(* message.                                                                *)
C7_NoCandidateIsNotAnError ==
    /\ (InCalls(out, "select_rent") /\ RentFilter(out.data.rows, input_bike_modes) = {})
          => /\ out.chosen_rent = None
             /\ MsgNoBikes \in out.msgs
             /\ MsgUnable \notin out.msgs
             /\ ~InCalls(out, "route_rent")
             /\ ~Failed(out, "route_rent")
    /\ (InCalls(out, "select_return") /\ DockFilter(out.data.rows) = {})
          => /\ out.chosen_return = None
             /\ MsgNoDocks \in out.msgs
             /\ MsgUnable \notin out.msgs
             /\ ~InCalls(out, "route_return")
             /\ ~Failed(out, "route_return")
    /\ (out.ran /\ out.data.kind = "none")
          => /\ MsgUnable \in out.msgs
             /\ MsgNoBikes \notin out.msgs
             /\ MsgNoDocks \notin out.msgs

C7_Witness ==
    /\ InCalls(out, "select_rent")
    /\ out.data.rows # {}
    /\ RentFilter(out.data.rows, input_bike_modes) = {}
    /\ MsgNoBikes \in out.msgs

(* C8: a submission whose address geocode cannot resolve shows the         *)
(* "Invalid address" message, raises nothing and selects and routes        *)
(* nothing for the flow; the same holds for every later run until an       *)
(* address is submitted again or Reset is pressed.                         *)
C8_UnresolvedAddress ==
    [][/\ (out'.event = "find_bike" /\ InCalls(out', "geocode")
           /\ out'.propagated = "no" /\ iamhere' = NoneLoc)
          => (MsgInvalid \in out'.msgs /\ findmeabike' /\ ~RentCalls(out'))
       /\ (out'.event = "find_dock" /\ InCalls(out', "geocode")
           /\ out'.propagated = "no" /\ iamhere_return' = NoneLoc)
          => (MsgInvalid \in out'.msgs /\ findmeadock' /\ ~ReturnCalls(out'))
       /\ (findmeabike /\ iamhere = NoneLoc /\ out'.event \notin {"find_bike", "reset"})
          => (findmeabike' /\ iamhere' = NoneLoc /\ ~RentCalls(out'))
       /\ (findmeadock /\ iamhere_return = NoneLoc
           /\ out'.event \notin {"find_dock", "reset"})
          => (findmeadock' /\ iamhere_return' = NoneLoc /\ ~ReturnCalls(out'))]_vars

C8_Witness ==
    /\ out.event = "rerun"
    /\ out.data.kind = "df"
    /\ findmeabike /\ iamhere = NoneLoc

(* C9: a run that has the snapshot and in which nothing raises renders     *)
(* exactly one map, and a route map only in the mode it belongs to.        *)
C9_OneMapOfMode ==
    (out.ran /\ out.data.kind = "df" /\ out.propagated = "no" /\ out.failures = {})
        => /\ Cardinality(out.maps) = 1
           /\ "route_rent_map" \in out.maps => bike_method = "Rent"
           /\ "route_return_map" \in out.maps => bike_method = "Return"

(* C10: Reset restores the five keys to their initial values, leaves       *)
(* bike_method alone, and is offered after every script run.               *)
C10_ResetRestores ==
    /\ [][out'.event = "reset"
            => /\ findmeabike' = FALSE /\ findmeadock' = FALSE
               /\ iamhere' = 0 /\ iamhere_return' = 0
               /\ input_bike_modes' = {}
               /\ bike_method' = bike_method]_vars
    /\ [](out.ran => "reset" \in widgets)

====
